---- MODULE Spec2Model ----
(***************************************************************************)
(* Model of src/app.py (Audible Insights): the catalog loader, the vector  *)
(* index builder, the similarity query and the threshold query.            *)
(*                                                                         *)
(* Conventions.  A CSV cell is a sequence of one-character strings; a      *)
(* number is held in tenths (4.5 is 45); the floating-point NaN is the     *)
(* value NaN; a frame is a sequence of rows, each carrying its pandas      *)
(* index label in the field idx.                                           *)
(***************************************************************************)
EXTENDS Integers, Sequences, FiniteSets, TLC

\* ---------------------------------------------------------------- bounds
\* rows of each CSV file in the loader-focused inputs
MaxRows == 2

\* rows of the largest catalog
MaxWide == 22

\* ------------------------------------------------------- scalar helpers
NaN == -1

NA == << "<NaN>" >>

Range(s) == {s[i] : i \in 1..Len(s)}

SeqsUpTo(S, n) == UNION {[1..m -> S] : m \in 0..n}

Digits == {"0", "1", "2", "3", "4", "5", "6", "7", "8", "9"}

Digit(c) ==
  CASE c = "0" -> 0 [] c = "1" -> 1 [] c = "2" -> 2 [] c = "3" -> 3
    [] c = "4" -> 4 [] c = "5" -> 5 [] c = "6" -> 6 [] c = "7" -> 7
    [] c = "8" -> 8 [] c = "9" -> 9

RECURSIVE IntValue(_)
IntValue(ds) ==
  IF ds = <<>> THEN 0
  ELSE 10 * IntValue(SubSeq(ds, 1, Len(ds) - 1)) + Digit(ds[Len(ds)])

DotPos(cell) ==
  IF \E i \in 1..Len(cell) : cell[i] = "."
  THEN CHOOSE i \in 1..Len(cell) :
         cell[i] = "." /\ \A j \in 1..(i - 1) : cell[j] # "."
  ELSE 0

\* pd.to_numeric(column, errors="coerce") on one cell: the number in tenths,
\* NaN for a missing cell or a cell that is not a decimal numeral.  The cells
\* of the model carry at most one fractional digit.
ToNumeric(cell) ==
  IF cell = NA \/ cell = <<>> THEN NaN
  ELSE LET p == DotPos(cell)
           whole == IF p = 0 THEN cell ELSE SubSeq(cell, 1, p - 1)
           frac == IF p = 0 THEN <<>> ELSE SubSeq(cell, p + 1, Len(cell))
       IN IF /\ Range(whole) \subseteq Digits
             /\ Range(frac) \subseteq Digits
             /\ Len(whole) + Len(frac) > 0
          THEN 10 * IntValue(whole) + IntValue(frac)
          ELSE NaN

LowerChar(c) ==
  CASE c = "I" -> "i" [] c = "O" -> "o" [] c = "B" -> "b"
    [] OTHER -> c

\* str.lower() on a title
Lower(t) == [i \in 1..Len(t) |-> LowerChar(t[i])]

\* ------------------------------------------------------------ the frames
\* `sub in c.lower()` for the column names of the model
Mentions(c, sub) ==
  \/ sub = "rating" /\ c = "Rating"
  \/ sub = "desc" /\ c = "Description"
  \/ sub = "review" /\ c = "Number of Reviews"

\* for c in df.columns: if sub in c.lower(): col = c; break
DetectCol(cols, sub) ==
  IF \E i \in 1..Len(cols) : Mentions(cols[i], sub)
  THEN cols[CHOOSE i \in 1..Len(cols) :
              /\ Mentions(cols[i], sub)
              /\ \A j \in 1..(i - 1) : ~Mentions(cols[j], sub)]
  ELSE "None"

\* the cell of column c in a merged row
Cell(r, c) ==
  CASE c \in {"Rating", "Stars"} -> r.rating
    [] c = "Description" -> r.desc
    [] c = "Number of Reviews" -> r.reviews
    [] c = "Book Name" -> r.title
    [] c = "Author" -> r.author

\* the rows of the right frame that join the left row l, in the right order
RECURSIVE Matches(_, _)
Matches(l, right) ==
  IF right = <<>> THEN <<>>
  ELSE LET r == Head(right)
           rest == Matches(l, Tail(right))
       IN IF r.title = l.title /\ r.author = l.author
          THEN <<[title |-> l.title, author |-> l.author, rating |-> l.rating,
                  desc |-> r.desc, reviews |-> r.reviews]>> \o rest
          ELSE rest

RECURSIVE JoinRows(_, _)
JoinRows(left, right) ==
  IF left = <<>> THEN <<>>
  ELSE Matches(Head(left), right) \o JoinRows(Tail(left), right)

\* pd.merge(df1, df2, on=["Book Name", "Author"], how="inner"): the order of
\* the left keys is kept (the documented behaviour of an inner join), each
\* left row followed by its matches in the right order, and the result has a
\* fresh RangeIndex
Merge(left, right) ==
  LET rows == JoinRows(left, right)
  IN [i \in 1..Len(rows) |->
        [idx |-> i - 1, title |-> rows[i].title, author |-> rows[i].author,
         rating |-> rows[i].rating, desc |-> rows[i].desc,
         reviews |-> rows[i].reviews]]

\* df[desc_col].fillna("")
FillNa(cell) == IF cell = NA THEN <<>> ELSE cell

\* lines 41-63: the columns Rating, Description and Reviews are added
AddColumns(rows, rating_col, desc_col, reviews_col) ==
  [i \in 1..Len(rows) |->
     [idx |-> rows[i].idx,
      BookName |-> rows[i].title,
      Author |-> rows[i].author,
      Rating |-> ToNumeric(Cell(rows[i], rating_col)),
      Description |-> IF desc_col # "None"
                      THEN FillNa(Cell(rows[i], desc_col)) ELSE <<>>,
      Reviews |-> IF reviews_col # "None"
                  THEN ToNumeric(Cell(rows[i], reviews_col)) ELSE NaN]]

\* mutant of DropNa: dropna() over every column
DropNaAnyColumn(rows) ==
  SelectSeq(rows, LAMBDA r : r.Rating # NaN /\ r.Reviews # NaN)

\* df.dropna(subset=["Rating"])
DropNa(rows) == SelectSeq(rows, LAMBDA r : r.Rating # NaN)

\* df.drop_duplicates(subset=["Book Name", "Author"]): keep="first"
RECURSIVE DropDuplicates(_)
DropDuplicates(rows) ==
  IF rows = <<>> THEN <<>>
  ELSE LET n == Len(rows)
           init == DropDuplicates(SubSeq(rows, 1, n - 1))
           r == rows[n]
       IN IF \E i \in 1..Len(init) :
               init[i].BookName = r.BookName /\ init[i].Author = r.Author
          THEN init
          ELSE Append(init, r)

\* df.reset_index(drop=True)
ResetIndex(rows) ==
  [i \in 1..Len(rows) |-> [rows[i] EXCEPT !.idx = i - 1]]

\* mutant of Clean: duplicates dropped before the rows without a rating
CleanDedupFirst(rows) == ResetIndex(DropNa(DropDuplicates(rows)))

\* lines 65-68
Clean(rows) == ResetIndex(DropDuplicates(DropNa(rows)))

\* ------------------------------------------------- the vector index
\* A description is a sequence of lower-case words of two letters or more.
\* Weights are fixed-point: an idf in thousandths, a normalised component in
\* ten-thousandths, a similarity in 1e-8 (100000000 is 1.0).

\* the words of the model that are on scikit-learn's English stop list
StopWords == {"the", "and"}

\* TfidfVectorizer's analyzer: tokens that are not stop words
Analyzer(doc) == SelectSeq(doc, LAMBDA w : w \notin StopWords)

TermCount(doc, t) == Cardinality({k \in 1..Len(doc) : doc[k] = t})

\* the fitted vocabulary (max_features=5000 never binds on the model's words)
Vocabulary(docs) == UNION {Range(Analyzer(docs[i])) : i \in 1..Len(docs)}

DocFreq(docs, t) ==
  Cardinality({i \in 1..Len(docs) : t \in Range(Analyzer(docs[i]))})

\* 1000 * ln(k), k = 1..32
LnMilli ==
  <<0, 693, 1099, 1386, 1609, 1792, 1946, 2079, 2197, 2303, 2398, 2485,
    2565, 2639, 2708, 2773, 2833, 2890, 2944, 2996, 3045, 3091, 3135, 3178,
    3219, 3258, 3296, 3332, 3367, 3401, 3434, 3466>>

\* smooth idf: ln((1 + n) / (1 + df)) + 1
Idf(n, d) == LnMilli[1 + n] - LnMilli[1 + d] + 1000

RECURSIVE SumOver(_, _)
SumOver(f, S) ==
  IF S = {} THEN 0
  ELSE LET t == CHOOSE x \in S : TRUE
       IN f[t] + SumOver(f, S \ {t})

RECURSIVE IsqrtIn(_, _, _)
IsqrtIn(m, lo, hi) ==
  IF lo >= hi THEN lo
  ELSE LET mid == (lo + hi + 1) \div 2
       IN IF mid * mid <= m THEN IsqrtIn(m, mid, hi)
          ELSE IsqrtIn(m, lo, mid - 1)

Isqrt(m) == IsqrtIn(m, 0, 46340)

\* tf * idf of one document over the vocabulary
TfIdfRow(docs, i, vocab) ==
  [t \in vocab |->
     TermCount(Analyzer(docs[i]), t) * Idf(Len(docs), DocFreq(docs, t))]

\* sklearn.preprocessing.normalize(norm="l2"): a zero row stays zero
L2Normalize(v) ==
  LET norm == Isqrt(SumOver([t \in DOMAIN v |-> v[t] * v[t]], DOMAIN v))
  IN IF norm = 0 THEN v
     ELSE [t \in DOMAIN v |-> (v[t] * 10000) \div norm]

Dot(u, v) == SumOver([t \in DOMAIN u |-> u[t] * v[t]], DOMAIN u)

\* tfidf.fit_transform(df["Description"]): the l2-normalised rows
TfidfMatrix(docs) ==
  LET vocab == Vocabulary(docs)
  IN [i \in 1..Len(docs) |-> L2Normalize(TfIdfRow(docs, i, vocab))]

\* cosine_similarity(X): normalise the rows again, then X . X^T, indexed by
\* position 0..n-1
CosineSimilarity(X) ==
  LET n == Len(X)
      Y == [i \in 1..n |-> L2Normalize(X[i])]
  IN [i \in 0..(n - 1) |-> [j \in 0..(n - 1) |-> Dot(Y[i + 1], Y[j + 1])]]

\* pd.Series(values, index=labels)
MakeSeries(values, labels) ==
  [i \in 1..Len(values) |-> [label |-> labels[i], value |-> values[i]]]

\* Series.drop_duplicates(): drops the entries whose VALUE repeats an earlier
\* value (keep="first"); the labels play no part
RECURSIVE SeriesDropDuplicates(_)
SeriesDropDuplicates(s) ==
  IF s = <<>> THEN <<>>
  ELSE LET n == Len(s)
           init == SeriesDropDuplicates(SubSeq(s, 1, n - 1))
       IN IF \E i \in 1..Len(init) : init[i].value = s[n].value
          THEN init
          ELSE Append(init, s[n])

\* lines 81-83
TitleIndex(frame) ==
  SeriesDropDuplicates(
    MakeSeries([i \in 1..Len(frame) |-> frame[i].idx],
               [i \in 1..Len(frame) |-> Lower(frame[i].BookName)]))

\* ------------------------------------------------------- the queries
TopK == 5

HeadRows == 20

\* a comparison with NaN is False
GeNum(x, y) == x # NaN /\ x >= y

\* mutant of LeNum: a missing value compares as a small number
LeNumMissingAsSmall(x, y) == x <= y

LeNum(x, y) == x # NaN /\ x <= y

HasLabel(frame, i) == \E k \in 1..Len(frame) : frame[k].idx = i

\* df.loc[i]
Loc(frame, i) == frame[CHOOSE k \in 1..Len(frame) : frame[k].idx = i]

\* `key in indices`: membership in the labels of the Series
InIndex(series, key) == \E i \in 1..Len(series) : series[i].label = key

\* indices[key]: the values under the label, in order (a scalar when there is
\* exactly one, a Series when there are several)
Lookup(series, key) ==
  LET hits == SelectSeq(series, LAMBDA e : e.label = key)
  IN [i \in 1..Len(hits) |-> hits[i].value]

\* list(enumerate(row)): pairs <<position, score>>
Enumerate(row) ==
  [k \in 1..Cardinality(DOMAIN row) |-> <<k - 1, row[k - 1]>>]

\* mutant of SortedDesc: an ascending sort reversed, which turns ties around
RECURSIVE SortedAscReversed(_)
SortedAscReversed(pairs) ==
  IF pairs = <<>> THEN <<>>
  ELSE LET n == Len(pairs)
           init == SortedAscReversed(SubSeq(pairs, 1, n - 1))
           x == pairs[n]
           ahead == Cardinality({k \in 1..Len(init) : init[k][2] > x[2]})
       IN SubSeq(init, 1, ahead) \o <<x>> \o SubSeq(init, ahead + 1, Len(init))

\* sorted(pairs, key=lambda x: x[1], reverse=True): descending by score, and
\* pairs with equal scores keep their original order
RECURSIVE SortedDesc(_)
SortedDesc(pairs) ==
  IF pairs = <<>> THEN <<>>
  ELSE LET n == Len(pairs)
           init == SortedDesc(SubSeq(pairs, 1, n - 1))
           x == pairs[n]
           ahead == Cardinality({k \in 1..Len(init) : init[k][2] >= x[2]})
       IN SubSeq(init, 1, ahead) \o <<x>> \o SubSeq(init, ahead + 1, Len(init))

FirstN(s, n) == SubSeq(s, 1, IF Len(s) < n THEN Len(s) ELSE n)

\* mutant of Results: the five most similar rows, the rating not consulted
ResultsUnfiltered(frame, sim_scores, min_rating) ==
  FirstN(Tail(sim_scores), TopK)

\* lines 123-126: [(i, s) for (i, s) in sim_scores[1:] if rating >= min][:5]
Results(frame, sim_scores, min_rating) ==
  FirstN(SelectSeq(Tail(sim_scores),
                   LAMBDA x : GeNum(Loc(frame, x[1]).Rating, min_rating)),
         TopK)

\* lines 154-156: the labels of the rows that pass both thresholds
GemLabels(frame, max_reviews, min_rating) ==
  {frame[k].idx : k \in {j \in 1..Len(frame) :
       /\ LeNum(frame[j].Reviews, 10 * max_reviews)
       /\ GeNum(frame[j].Rating, min_rating)}}

\* sort_values("Rating", ascending=False) with the default kind="quicksort",
\* which is not stable: the order of rows of equal rating is whatever the
\* numpy build produces, so the outcomes are all the orders that are
\* non-increasing by rating
RECURSIVE SortValuesDesc(_, _)
SortValuesDesc(frame, labels) ==
  IF labels = {} THEN {<<>>}
  ELSE LET top == {i \in labels : \A j \in labels :
                      Loc(frame, i).Rating >= Loc(frame, j).Rating}
       IN UNION {{<<i>> \o rest : rest \in SortValuesDesc(frame, labels \ {i})}
                 : i \in top}

\* ------------------------------------------------------------ inputs
Io == <<"I", "o">>

IO == <<"I", "O">>

Oz == <<"O", "z">>

Books ==
  {[title |-> Io, author |-> "Ann"], [title |-> Oz, author |-> "Ann"],
   [title |-> IO, author |-> "Bob"]}

FullColumns ==
  <<"Book Name", "Author", "Rating", "Description", "Number of Reviews">>

ColumnSets ==
  {FullColumns,
   <<"Book Name", "Author", "Rating", "Description">>,
   <<"Book Name", "Author", "Rating", "Number of Reviews">>,
   <<"Book Name", "Author", "Stars", "Description", "Number of Reviews">>}

GoodRatings == {<<"4", ".", "5">>, <<"3">>}

RawRatings == GoodRatings \cup {<<"x">>, NA}

RawReviews == {<<"5">>, <<"6", "0">>, NA}

Descriptions == {NA, <<"the", "spy">>, <<"spy", "chef">>, <<"chef">>}

Row1(b, r) == [title |-> b.title, author |-> b.author, rating |-> r]

Row2(b, d, v) ==
  [title |-> b.title, author |-> b.author, desc |-> d, reviews |-> v]

Injective(f) == \A i, j \in DOMAIN f : f[i] = f[j] => i = j

BookLists(n) == {f \in [1..n -> Books] : Injective(f)}

\* query-focused inputs: distinct books with parsable ratings; the second
\* file lists the same books in the opposite order
RecInputs ==
  UNION {{[c1 |-> [i \in 1..n |-> Row1(bs[i], rs[i])],
           c2 |-> [i \in 1..n |-> Row2(bs[n + 1 - i], ds[i], <<"5">>)],
           cols |-> FullColumns]
          : bs \in BookLists(n), rs \in [1..n -> GoodRatings],
            ds \in [1..n -> Descriptions]}
         : n \in 1..Cardinality(Books)}

\* loader-focused inputs: two books that share a title, any rating cell and
\* any review cell, rows repeated at will
LoadBooks ==
  {[title |-> Io, author |-> "Ann"], [title |-> Io, author |-> "Bob"]}

LoadInputs ==
  {[c1 |-> c1, c2 |-> c2, cols |-> FullColumns]
   : c1 \in SeqsUpTo({Row1(b, r) : b \in LoadBooks, r \in RawRatings}, MaxRows),
     c2 \in SeqsUpTo({Row2(b, <<"the", "spy">>, v)
                      : b \in LoadBooks, v \in RawReviews}, 2)}

\* one-row files under each column layout
SchemaInputs ==
  {[c1 |-> <<Row1(b, r)>>,
    c2 |-> <<Row2(b, <<"spy">>,
                  IF "Number of Reviews" \in Range(cols) THEN v ELSE NA)>>,
    cols |-> cols]
   : b \in LoadBooks, r \in RawRatings, v \in RawReviews, cols \in ColumnSets}

\* large catalogs: n distinct titles B00, B01, ...; ratings 5.0, 4.9, ...
\* downwards (optionally rows 0 and 1 tied); descriptions and review counts
\* cycle through a pattern
DigitChars == <<"0", "1", "2", "3", "4", "5", "6", "7", "8", "9">>

Numeral(v) == <<DigitChars[(v \div 10) + 1], DigitChars[(v % 10) + 1]>>

WideTitle(i) == <<"B">> \o Numeral(i)

RatingCell(v) ==
  <<DigitChars[(v \div 10) + 1], ".", DigitChars[(v % 10) + 1]>>

WideRating(i, tied) == RatingCell(IF tied /\ i = 1 THEN 50 ELSE 50 - i)

DescPatterns ==
  {<<<<"spy">>>>,
   <<NA, <<"spy", "chef">>, <<"spy">>, <<"chef">>>>,
   <<<<"spy", "chef">>, <<"chef", "spy">>, <<"spy", "spy">>, NA>>}

ReviewPatterns ==
  {<<<<"5">>>>, <<<<"5">>, <<"6", "0">>, NA>>,
   <<NA>> \o [k \in 1..MaxWide |-> <<"5">>]}

Cycle(pattern, i) == pattern[(i % Len(pattern)) + 1]

WideSizes == {7, MaxWide}

\* the description pattern varies or the review pattern does
WidePatterns ==
  {pat \in DescPatterns \X ReviewPatterns :
     pat[1] = <<<<"spy">>>> \/ pat[2] = <<<<"5">>>>}

WideInputs ==
  {[c1 |-> [k \in 1..n |->
              [title |-> WideTitle(k - 1), author |-> "Ann",
               rating |-> WideRating(k - 1, tied)]],
    c2 |-> [k \in 1..n |->
              [title |-> WideTitle(k - 1), author |-> "Ann",
               desc |-> Cycle(pat[1], k - 1),
               reviews |-> Cycle(pat[2], k - 1)]],
    cols |-> FullColumns]
   : n \in WideSizes, tied \in BOOLEAN, pat \in WidePatterns}

Inputs == RecInputs \cup LoadInputs \cup SchemaInputs \cup WideInputs

\* what is typed in the search box (empty: nothing typed), and the values
\* the sliders of the model take (ratings in tenths, review counts)
Searches == {<<>>, <<"b", "0", "2">>, <<"q">>}

MinRatings == {10, 35, 46}

MaxReviewsValues == {10, 200}

\* ------------------------------------------------------ the state machine
VARIABLES csv1, csv2, columns, pc, merged, df, reviews_col, cosine_sim,
          indices, out

vars == <<csv1, csv2, columns, pc, merged, df, reviews_col, cosine_sim,
          indices, out>>

NoOut ==
  [page |-> "none", status |-> "none", selected |-> <<>>, min_rating |-> 0,
   max_reviews |-> 0, rows |-> <<>>, shown |-> <<>>, count |-> 0]

Init ==
  /\ \E in \in Inputs : csv1 = in.c1 /\ csv2 = in.c2 /\ columns = in.cols
  /\ pc = "start"
  /\ merged = <<>>
  /\ df = <<>>
  /\ reviews_col = "None"
  /\ cosine_sim = <<>>
  /\ indices = <<>>
  /\ out = NoOut

\* df.columns after df[name] = ... : a new column goes last
WithColumn(cols, name) ==
  IF name \in Range(cols) THEN cols ELSE Append(cols, name)

\* load_data(), lines 18-70
LoadData ==
  /\ pc = "start"
  /\ LET m == Merge(csv1, csv2)
         rating_col == DetectCol(columns, "rating")
         cols1 == WithColumn(columns, "Rating")
         desc_col == DetectCol(cols1, "desc")
         cols2 == WithColumn(cols1, "Description")
         rev_col == DetectCol(cols2, "review")
     IN /\ merged' = m
        /\ IF rating_col = "None"
           THEN /\ pc' = "halted"
                /\ UNCHANGED <<df, reviews_col>>
           ELSE /\ pc' = "loaded"
                /\ df' = Clean(AddColumns(m, rating_col, desc_col, rev_col))
                /\ reviews_col' = rev_col
  /\ UNCHANGED <<csv1, csv2, columns, cosine_sim, indices, out>>

Docs(frame) == [i \in 1..Len(frame) |-> frame[i].Description]

\* build_model(df), lines 76-85; fit_transform raises ValueError on an empty
\* vocabulary
BuildModel ==
  /\ pc = "loaded"
  /\ IF Vocabulary(Docs(df)) = {}
     THEN /\ pc' = "build_failed"
          /\ UNCHANGED <<cosine_sim, indices>>
     ELSE /\ pc' = "ready"
          /\ cosine_sim' = CosineSimilarity(TfidfMatrix(Docs(df)))
          /\ indices' = TitleIndex(df)
  /\ UNCHANGED <<csv1, csv2, columns, merged, df, reviews_col, out>>

\* key = selected_book.lower()
Key(selected_book) == Lower(selected_book)

\* what pressing Recommend shows, lines 113-141
Recommendation(frame, sim, series, selected_book, min_rating) ==
  LET key == Key(selected_book)
      base == [NoOut EXCEPT !.page = "recommend", !.selected = selected_book,
                            !.min_rating = min_rating]
  IN IF ~InIndex(series, key)
     THEN [base EXCEPT !.status = "not_found"]
     ELSE LET hits == Lookup(series, key)
          IN IF Len(hits) > 1
             THEN \* cosine_sim[idx] is a 2-d block; sorting its rows raises
                  \* ValueError (truth value of an array is ambiguous)
                  [base EXCEPT !.status = "exception"]
             ELSE IF hits[1] \notin DOMAIN sim
             THEN [base EXCEPT !.status = "exception"]
             ELSE LET idx == hits[1]
                      sim_scores == SortedDesc(Enumerate(sim[idx]))
                  IN IF \E k \in 1..Len(sim_scores) :
                          ~HasLabel(frame, sim_scores[k][1])
                     THEN [base EXCEPT !.status = "exception"]
                     ELSE LET results == Results(frame, sim_scores, min_rating)
                              idxs == [k \in 1..Len(results) |-> results[k][1]]
                          IN IF results = <<>>
                             THEN [base EXCEPT !.status = "no_results"]
                             ELSE [base EXCEPT !.status = "ok", !.rows = idxs,
                                               !.shown = idxs,
                                               !.count = Len(idxs)]

\* `a in b` on strings
IsSubstring(a, b) ==
  \E i \in 1..(Len(b) - Len(a) + 1) : SubSeq(b, i, i + Len(a) - 1) = a

\* lines 105-109: the options of the select box, the titles of the catalog
\* narrowed to those that contain the search text when any does (their
\* sorted order only sets the default choice)
BookList(frame, search) ==
  LET book_list == {frame[k].BookName : k \in 1..Len(frame)}
      matches == {b \in book_list : IsSubstring(Lower(search), Lower(b))}
  IN IF search # <<>> /\ matches # {} THEN matches ELSE book_list

\* recommend_by_book(df, cosine_sim, indices, min_rating) with the button
\* pressed; selected_book is the option chosen in the select box
RecommendByBook ==
  /\ pc = "ready"
  /\ \E search \in Searches, min_rating \in MinRatings :
       \E selected_book \in BookList(df, search) :
         out' = Recommendation(df, cosine_sim, indices, selected_book,
                               min_rating)
  /\ UNCHANGED <<csv1, csv2, columns, pc, merged, df, reviews_col, cosine_sim,
                 indices>>

\* hidden_gems(df, reviews_col), lines 144-167
HiddenGems ==
  /\ pc = "ready"
  /\ \E max_reviews \in MaxReviewsValues, min_rating \in MinRatings :
       LET base == [NoOut EXCEPT !.page = "gems", !.min_rating = min_rating,
                                 !.max_reviews = max_reviews]
       IN IF reviews_col = "None"
          THEN out' = [base EXCEPT !.status = "unavailable"]
          ELSE \E gems \in SortValuesDesc(df, GemLabels(df, max_reviews,
                                                         min_rating)) :
                 out' = [base EXCEPT !.status = "ok", !.rows = gems,
                                     !.count = Len(gems),
                                     !.shown = FirstN(gems, HeadRows)]
  /\ UNCHANGED <<csv1, csv2, columns, pc, merged, df, reviews_col, cosine_sim,
                 indices>>

\* the About page, lines 213-228
About ==
  /\ pc = "ready"
  /\ out' = [NoOut EXCEPT !.page = "about"]
  /\ UNCHANGED <<csv1, csv2, columns, pc, merged, df, reviews_col, cosine_sim,
                 indices>>

Next == LoadData \/ BuildModel \/ RecommendByBook \/ HiddenGems \/ About

Spec == Init /\ [][Next]_vars

\* ------------------------------------------------------------ properties
Loaded == pc \in {"loaded", "build_failed", "ready"}

RowIds == {df[k].idx : k \in 1..Len(df)}

Min(a, b) == IF a < b THEN a ELSE b

SamePair(r, q) == r.title = q.title /\ r.author = q.author

\* the rating of a joined row parsed
Parsed(r) == ToNumeric(Cell(r, DetectCol(columns, "rating"))) # NaN

\* positions of the joined rows that are the first of their (title, author)
\* pair among the rows whose rating parsed
FirstParsed ==
  {p \in 1..Len(merged) :
     /\ Parsed(merged[p])
     /\ \A q \in 1..(p - 1) : ~(Parsed(merged[q]) /\ SamePair(merged[q], merged[p]))}

\* the k-th smallest element of a set of integers
Nth(S, k) == CHOOSE p \in S : Cardinality({q \in S : q < p}) = k - 1

RecOut == pc = "ready" /\ out.page = "recommend"

RecOk == RecOut /\ out.status = "ok"

GemsOk == pc = "ready" /\ out.page = "gems" /\ out.status = "ok"

\* the row the title index is meant to give for the selected title: the
\* smallest row id whose lower-cased title is the key
SeedRow ==
  LET same == {i \in RowIds : Lower(Loc(df, i).BookName) = Lower(out.selected)}
  IN CHOOSE i \in same : \A j \in same : i <= j

Eligible ==
  {i \in RowIds \ {SeedRow} : Loc(df, i).Rating >= out.min_rating}

\* C1: the list returned by recommend never contains the seed row itself.
C1_SeedExcluded ==
  RecOk => \A k \in 1..Len(out.rows) : out.rows[k] # SeedRow

\* C2: after build, every lower-cased title maps to exactly one row id, the
\* smallest row id among the records with that lower-cased title, and a
\* lookup in recommend resolves to that single row.
C2_TitleIndexFirstOccurrence ==
  pc = "ready" =>
    /\ \A k \in 1..Len(df) :
         LET key == Lower(df[k].BookName)
             same == {i \in RowIds : Lower(Loc(df, i).BookName) = key}
         IN Lookup(indices, key) = <<CHOOSE i \in same : \A j \in same : i <= j>>
    /\ out.page = "recommend" => out.status # "exception"

\* C3: for a seed found in the title index the result holds min(k, E) rows,
\* E the number of non-seed rows with rating >= minRating, and no eligible
\* row left out is strictly more similar to the seed than a returned row.
C3_TopKMostSimilarEligible ==
  (RecOut /\ InIndex(indices, Lower(out.selected))) =>
    /\ Len(out.rows) = Min(TopK, Cardinality(Eligible))
    /\ \A i \in Eligible \ Range(out.rows) :
         \A k \in 1..Len(out.rows) :
           ~(cosine_sim[SeedRow][i] > cosine_sim[SeedRow][out.rows[k]])

\* C4: every record returned by recommend has rating >= minRating.
C4_ReturnedRatingAtLeastMin ==
  RecOut => \A k \in 1..Len(out.rows) :
              Loc(df, out.rows[k]).Rating >= out.min_rating

C4_Witness ==
  /\ RecOk
  /\ \E i \in RowIds \ Range(out.rows) :
       /\ Loc(df, i).Rating < out.min_rating
       /\ \E k \in 1..Len(out.rows) :
            cosine_sim[SeedRow][i] > cosine_sim[SeedRow][out.rows[k]]

\* C5: with review counts available the hidden-gems result is exactly the
\* set of records with review_count <= maxReviews and rating >= minRating
\* (never one whose review count is missing), each once, non-increasing by
\* rating, and the reported count is the size of that set, not of the
\* 20-row display.
C5_HiddenGemsExact ==
  GemsOk =>
    LET want == {i \in RowIds :
                   /\ Loc(df, i).Reviews # NaN
                   /\ Loc(df, i).Reviews <= 10 * out.max_reviews
                   /\ Loc(df, i).Rating >= out.min_rating}
    IN /\ Range(out.rows) = want
       /\ Len(out.rows) = Cardinality(want)
       /\ out.count = Cardinality(want)
       /\ \A a, b \in 1..Len(out.rows) :
            a < b => Loc(df, out.rows[a]).Rating >= Loc(df, out.rows[b]).Rating
       /\ out.shown = SubSeq(out.rows, 1, Min(HeadRows, Len(out.rows)))

C5_Witness ==
  /\ GemsOk
  /\ out.count > HeadRows
  /\ Len(out.shown) = HeadRows
  /\ \E i \in RowIds : Loc(df, i).Reviews = NaN

\* C6: after load no two records share a (title, author) pair, row ids are
\* 0..N-1 in surviving order, and the record kept for a pair is the first
\* joined row with that pair among the rows whose rating parsed.
C6_DedupDenseFirstParsed ==
  Loaded =>
    /\ \A a, b \in 1..Len(df) :
         (df[a].BookName = df[b].BookName /\ df[a].Author = df[b].Author)
           => a = b
    /\ \A k \in 1..Len(df) : df[k].idx = k - 1
    /\ Len(df) = Cardinality(FirstParsed)
    /\ \A k \in 1..Len(df) :
         LET r == merged[Nth(FirstParsed, k)]
         IN /\ df[k].BookName = r.title
            /\ df[k].Author = r.author
            /\ df[k].Rating = ToNumeric(r.rating)
            /\ df[k].Reviews = ToNumeric(r.reviews)

C6_Witness ==
  /\ Loaded
  /\ \E p, q, t \in 1..Len(merged) :
       /\ p < q /\ q < t
       /\ SamePair(merged[p], merged[q]) /\ SamePair(merged[q], merged[t])
       /\ ~Parsed(merged[p]) /\ Parsed(merged[q]) /\ Parsed(merged[t])
       /\ merged[q].reviews # merged[t].reviews
       /\ df[1].Reviews = ToNumeric(merged[q].reviews)
  /\ Len(df) = 1

\* C7: survival in load is decided by the rating alone: a joined row whose
\* rating fails to parse never appears (it is not defaulted to a number), and
\* a joined row whose rating parses is not dropped for a missing or
\* unparsable review count.
C7_SurvivalByRatingAlone ==
  Loaded =>
    /\ \A k \in 1..Len(df) :
         /\ df[k].Rating # NaN
         /\ \E p \in 1..Len(merged) :
              /\ Parsed(merged[p])
              /\ merged[p].title = df[k].BookName
              /\ merged[p].author = df[k].Author
              /\ ToNumeric(merged[p].rating) = df[k].Rating
    /\ \A p \in 1..Len(merged) :
         Parsed(merged[p]) =>
           \E k \in 1..Len(df) :
             df[k].BookName = merged[p].title /\ df[k].Author = merged[p].author
    /\ \A p \in FirstParsed :
         ToNumeric(merged[p].reviews) = NaN =>
           \E k \in 1..Len(df) :
             /\ df[k].BookName = merged[p].title
             /\ df[k].Author = merged[p].author
             /\ df[k].Reviews = NaN

C7_Witness ==
  /\ Loaded
  /\ reviews_col # "None"
  /\ \E k \in 1..Len(df) : df[k].Reviews = NaN
  /\ \E p \in 1..Len(merged) :
       /\ ~Parsed(merged[p])
       /\ \A k \in 1..Len(df) :
            ~(df[k].BookName = merged[p].title /\ df[k].Author = merged[p].author)

\* The select box offers titles of the catalog only, and every title of the
\* catalog lower-cases to a label of the title index: the not-found branch of
\* line 115 is never taken.
NotFoundNeverTaken == pc = "ready" => out.status # "not_found"

\* C9: the list returned by recommend is ordered by non-increasing
\* similarity to the seed, and rows of equal similarity appear in ascending
\* row-id order.
C9_OrderedBySimilarityStable ==
  RecOk =>
    \A a, b \in 1..Len(out.rows) :
      a < b =>
        LET sa == cosine_sim[SeedRow][out.rows[a]]
            sb == cosine_sim[SeedRow][out.rows[b]]
        IN sa >= sb /\ (sa = sb => out.rows[a] < out.rows[b])

C9_Witness ==
  /\ RecOk
  /\ \E a, b \in 1..Len(out.rows) :
       /\ a < b
       /\ cosine_sim[SeedRow][out.rows[a]] = cosine_sim[SeedRow][out.rows[b]]
  /\ \E a, b \in 1..Len(out.rows) :
       /\ a < b
       /\ out.rows[a] > out.rows[b]
       /\ cosine_sim[SeedRow][out.rows[a]] > cosine_sim[SeedRow][out.rows[b]]

\* C10: in the hidden-gems result, records of equal rating appear in
\* ascending original row-id order.
C10_GemsTiesByRowId ==
  GemsOk =>
    \A a, b \in 1..Len(out.rows) :
      (a < b /\ Loc(df, out.rows[a]).Rating = Loc(df, out.rows[b]).Rating)
        => out.rows[a] < out.rows[b]

====
